---- MODULE Spec2Model ----
(***************************************************************************)
(* A model of the whisky-review archive cleaner (preprocess.py) and of the *)
(* review text normalizer (review_processing.py).                          *)
(*                                                                         *)
(* A Python str is a sequence of one-character strings, Chars("ab") =      *)
(* <<"a","b">>; np.nan is the value NaN, which is no character sequence.   *)
(* A pandas Series is a sequence of cells; a DataFrame is a sequence of    *)
(* rows, each row a function from column names to cells.                   *)
(***************************************************************************)
EXTENDS Integers, Sequences, FiniteSets, TLC

VARIABLES
    regex,            \* pandas' default for Series.str.replace(regex=...)
    \* whisky_archive_processor
    xlsx,             \* the content of the spreadsheet at file_loc
    whisky_archive,   \* self.whisky_archive
    keep_styles,      \* the local keep_styles of process
    pc,               \* the statement process has reached
    \* _scrape_reddit_reviews_
    dataframe,        \* the dataframe argument
    reviews,          \* the local list reviews
    submission,       \* the nodes of the thread read in this iteration; whether it raised
    review_top_level_comments,   \* the local list of this iteration
    scrape_pc,        \* the statement _scrape_reddit_reviews_ has reached
    \* _strip_and_lower_series, applied repeatedly
    series,           \* the argument of the first application
    out_series,       \* the results of the applications so far
    \* _keep_frequent_ and the record filter
    kf_series, kf_count, kf_index, kf_kept, kf_pc,
    \* preprocess_reviews
    text_arg,         \* the argument text_series as it was passed
    text_series,      \* the local text_series
    processed_series, \* the local processed_series, and then the returned series
    text_pc           \* the statement preprocess_reviews has reached

vars == <<regex, xlsx, whisky_archive, keep_styles, pc, dataframe, reviews,
          submission, review_top_level_comments, scrape_pc, series, out_series, kf_series, kf_count, kf_index,
          kf_kept, kf_pc, text_arg, text_series, processed_series, text_pc>>

processVars == <<xlsx, whisky_archive, keep_styles, pc>>
scrapeVars == <<dataframe, reviews, submission, review_top_level_comments, scrape_pc>>
normVars == <<series, out_series>>
keepVars == <<kf_series, kf_count, kf_index, kf_kept, kf_pc>>
textVars == <<text_arg, text_series, processed_series, text_pc>>

(***************************************************************************)
(* Strings                                                                 *)
(***************************************************************************)

Chars(s) == [i \in 1..Len(s) |-> SubSeq(s, i, i)]

NaN == <<"NaN">>

None == <<"None">>

isnull(x) == x = NaN

UpperChars == Chars("ABCDEFGHIJKLMNOPQRSTUVWXYZ")

LowerChars == Chars("abcdefghijklmnopqrstuvwxyz")

Digits == {"0", "1", "2", "3", "4", "5", "6", "7", "8", "9"}

Range(f) == {f[i] : i \in DOMAIN f}

IsSpace(c) == c \in {" ", "\t", "\n"}

LowerOf == [c \in Range(UpperChars) |->
                LowerChars[CHOOSE i \in DOMAIN UpperChars : UpperChars[i] = c]]

LowerChar(c) == IF c \in DOMAIN LowerOf THEN LowerOf[c] ELSE c

\* str.lower()
lower(s) == [i \in DOMAIN s |-> LowerChar(s[i])]

RECURSIVE lstrip(_)
lstrip(s) == IF s # <<>> /\ IsSpace(Head(s)) THEN lstrip(Tail(s)) ELSE s

RECURSIVE rstrip(_)
rstrip(s) ==
    IF s # <<>> /\ IsSpace(s[Len(s)]) THEN rstrip(SubSeq(s, 1, Len(s) - 1)) ELSE s

\* A strip that forgets the trailing whitespace.
strip_left_only(s) == lstrip(s)

\* str.strip()
strip(s) == rstrip(lstrip(s))

\* Series.str.<method>: the method on every string cell, NaN where the cell is NaN.
str_strip(ser) == [i \in DOMAIN ser |-> IF isnull(ser[i]) THEN NaN ELSE strip(ser[i])]

str_lower(ser) == [i \in DOMAIN ser |-> IF isnull(ser[i]) THEN NaN ELSE lower(ser[i])]

\* Series.replace(to_replace, value): whole cells equal to to_replace.
replace(ser, to_replace, value) ==
    [i \in DOMAIN ser |-> IF ser[i] = to_replace THEN value ELSE ser[i]]

_strip_and_lower_series(ser) == replace(str_lower(str_strip(ser)), <<>>, NaN)

(***************************************************************************)
(* _strip_and_lower_series applied to a series, and again to its result    *)
(***************************************************************************)

NormMaxLen == 2

NormMaxSeries == 2

\* All sequences over S of length at most n.
SeqUpTo(S, n) == UNION {[1..k -> S] : k \in 0..n}

NormAlphabet == {" ", "a", "A"}

NormCells == SeqUpTo(NormAlphabet, NormMaxLen) \cup {NaN}

IdleProcess == xlsx = <<>> /\ whisky_archive = None /\ keep_styles = {} /\ pc = "idle"

IdleScrape ==
    /\ dataframe = <<>> /\ reviews = <<>> /\ submission = <<>>
    /\ review_top_level_comments = <<>> /\ scrape_pc = "idle"

IdleNorm == series = <<>> /\ out_series = <<>>

IdleKeep ==
    kf_series = <<>> /\ kf_count = 0 /\ kf_index = {} /\ kf_kept = <<>> /\ kf_pc = "idle"

IdleText ==
    text_arg = <<>> /\ text_series = <<>> /\ processed_series = <<>> /\ text_pc = "idle"

InitNorm ==
    /\ regex = TRUE
    /\ series \in SeqUpTo(NormCells, NormMaxSeries) \ {<<>>}
    /\ out_series = <<>>
    /\ IdleProcess /\ IdleScrape /\ IdleKeep /\ IdleText

\* One more application: to the argument first, then to the last result.
Normalize ==
    /\ Len(out_series) < 2
    /\ out_series' = Append(out_series,
                            _strip_and_lower_series(
                                IF out_series = <<>> THEN series
                                ELSE out_series[Len(out_series)]))
    /\ UNCHANGED <<regex, series, processVars, scrapeVars, keepVars, textVars>>

NextNorm == Normalize

SpecNorm == InitNorm /\ [][NextNorm]_vars

\* C9: applying _strip_and_lower_series twice gives what applying it once gives,
\* for every string cell and for the missing marker; and one application gives the
\* missing marker for NaN and for a string that trims to nothing, and otherwise a
\* non-empty string without whitespace at either end and without uppercase letters,
\* which is the argument's characters from its first to its last non-whitespace
\* one, each lowercased.
C9_Idempotent ==
    /\ Len(out_series) >= 1 =>
        \A i \in DOMAIN series :
            LET x == series[i]
                y == out_series[1][i]
                Inner == {k \in DOMAIN x : ~IsSpace(x[k])}
            IN  /\ DOMAIN out_series[1] = DOMAIN series
                /\ IF isnull(x) \/ Inner = {}
                   THEN y = NaN
                   ELSE LET a == CHOOSE k \in Inner : \A j \in Inner : k <= j
                            b == CHOOSE k \in Inner : \A j \in Inner : k >= j
                        IN  /\ Len(y) = b - a + 1
                            /\ \A k \in 1..Len(y) :
                                /\ y[k] \notin Range(UpperChars)
                                /\ y[k] = LowerChar(x[a + k - 1])
    /\ Len(out_series) = 2 => out_series[2] = out_series[1]

\* A series with a padded uppercase string and an all-blank string, normalized twice.
C9_Witness ==
    /\ Len(out_series) = 2
    /\ \E i \in DOMAIN series : series[i] = <<" ", "A">> /\ out_series[2][i] = <<"a">>
    /\ \E i \in DOMAIN series : series[i] = <<" ", " ">> /\ out_series[2][i] = NaN

(***************************************************************************)
(* _keep_frequent_ on a series of labels, and the record filter after it   *)
(***************************************************************************)

\* Series.value_counts(): the count of every value that occurs; NaN is not counted.
value_counts(ser) ==
    [l \in Range(ser) \ {NaN} |-> Cardinality({i \in DOMAIN ser : ser[i] = l})]

\* A filter that keeps the values occurring more than count times.
_keep_more_frequent_(ser, count) ==
    LET v_counts == value_counts(ser)
    IN  {l \in DOMAIN v_counts : v_counts[l] > count}

\* Returns v_counts[v_counts >= count].index, as the set of its values.
_keep_frequent_(ser, count) ==
    LET v_counts == value_counts(ser)
    IN  {l \in DOMAIN v_counts : v_counts[l] >= count}

\* Series.isin(values): NaN is in no index that value_counts built.
isin(ser, values) == [i \in DOMAIN ser |-> ser[i] \in values]

KeepMaxLen == 4

KeepLabels == {Chars("a"), Chars("b"), Chars("c"), NaN}

InitKeep ==
    /\ regex = TRUE
    /\ kf_series \in SeqUpTo(KeepLabels, KeepMaxLen)
    /\ kf_count \in 0..(KeepMaxLen + 1)
    /\ kf_index = {}
    /\ kf_kept = <<>>
    /\ kf_pc = "count"
    /\ IdleProcess /\ IdleScrape /\ IdleNorm /\ IdleText

\* keep = _keep_frequent_(series, count)
KeepFrequent ==
    /\ kf_pc = "count"
    /\ kf_index' = _keep_frequent_(kf_series, kf_count)
    /\ kf_pc' = "filter"
    /\ UNCHANGED <<regex, kf_series, kf_count, kf_kept, processVars, scrapeVars,
                   normVars, textVars>>

\* table[table[col].isin(keep)]: the positions of the records kept, in order.
FilterRecords ==
    /\ kf_pc = "filter"
    /\ kf_kept' = SelectSeq([i \in DOMAIN kf_series |-> i],
                            LAMBDA i : isin(kf_series, kf_index)[i])
    /\ kf_pc' = "done"
    /\ UNCHANGED <<regex, kf_series, kf_count, kf_index, processVars, scrapeVars,
                   normVars, textVars>>

NextKeep == KeepFrequent \/ FilterRecords

SpecKeep == InitKeep /\ [][NextKeep]_vars

\* The number of cells of ser that hold label l.
Occurrences(ser, l) == Cardinality({i \in DOMAIN ser : ser[i] = l})

\* C6: for any labels and threshold, _keep_frequent_ returns exactly the labels of
\* the input that occur at least count times: each returned label does, no such
\* label is left out, the missing label is never returned; and the record filter
\* then keeps exactly the records with such a label, none when no label reaches
\* the threshold.
C6_KeepFrequent ==
    /\ kf_pc \in {"filter", "done"} =>
        /\ \A l \in kf_index : l # NaN /\ Occurrences(kf_series, l) >= kf_count
        /\ \A i \in DOMAIN kf_series :
            (kf_series[i] # NaN /\ Occurrences(kf_series, kf_series[i]) >= kf_count)
                => kf_series[i] \in kf_index
    /\ kf_pc = "done" =>
        /\ \A k \in DOMAIN kf_kept :
            /\ kf_series[kf_kept[k]] # NaN
            /\ Occurrences(kf_series, kf_series[kf_kept[k]]) >= kf_count
        /\ \A i \in DOMAIN kf_series :
            (kf_series[i] # NaN /\ Occurrences(kf_series, kf_series[i]) >= kf_count)
                => \E k \in DOMAIN kf_kept : kf_kept[k] = i
        /\ (\A i \in DOMAIN kf_series :
                kf_series[i] = NaN \/ Occurrences(kf_series, kf_series[i]) < kf_count)
            => kf_kept = <<>>

\* A label exactly at the threshold is kept beside a rarer one and a missing one.
C6_Witness ==
    /\ kf_pc = "done"
    /\ kf_count = 2
    /\ kf_series = <<Chars("a"), NaN, Chars("b"), Chars("a")>>
    /\ kf_index = {Chars("a")}
    /\ kf_kept = <<1, 4>>

(***************************************************************************)
(* Series.str methods that take a pattern, and urllib.parse.urlparse       *)
(***************************************************************************)

\* One pattern character against one character of the string: with rx the
\* pattern is a regular expression, whose "." is any character but a newline.
\* (No pattern of the program holds another metacharacter outside a class.)
AtomMatches(p, c, rx) == IF rx /\ p = "." THEN c # "\n" ELSE p = c

MatchAt(s, i, pat, rx) ==
    /\ i + Len(pat) - 1 <= Len(s)
    /\ \A k \in DOMAIN pat : AtomMatches(pat[k], s[i + k - 1], rx)

\* Every non-overlapping occurrence of pat, from the left, replaced by repl.
RECURSIVE ReplaceAll(_, _, _, _)
ReplaceAll(s, pat, repl, rx) ==
    IF Len(s) < Len(pat) THEN s
    ELSE IF MatchAt(s, 1, pat, rx)
         THEN repl \o ReplaceAll(SubSeq(s, Len(pat) + 1, Len(s)), pat, repl, rx)
         ELSE <<Head(s)>> \o ReplaceAll(Tail(s), pat, repl, rx)

\* Series.str.replace(pat, repl), under the installed pandas' default of regex.
str_replace(ser, pat, repl, rx) ==
    [i \in DOMAIN ser |-> IF isnull(ser[i]) THEN NaN ELSE ReplaceAll(ser[i], pat, repl, rx)]

\* Series.str.contains(pat): a regular-expression search (regex=True in every pandas).
str_contains(ser, pat) ==
    [i \in DOMAIN ser |->
        IF isnull(ser[i]) THEN NaN
        ELSE \E k \in 1..Len(ser[i]) : MatchAt(ser[i], k, pat, TRUE)]

\* 'prefix' + series
str_prepend(prefix, ser) ==
    [i \in DOMAIN ser |-> IF isnull(ser[i]) THEN NaN ELSE prefix \o ser[i]]

\* str.find(c), counted from 1; 0 when c does not occur.
Find(s, cs) ==
    IF \E k \in DOMAIN s : s[k] \in cs
    THEN CHOOSE k \in DOMAIN s : s[k] \in cs /\ \A j \in 1..(k - 1) : s[j] \notin cs
    ELSE 0

scheme_chars == Range(LowerChars) \cup Range(UpperChars) \cup Digits \cup {"+", "-", "."}

\* urlparse(url) for a str: its scheme, netloc and path ('' where there is none).
urlparse(url) ==
    LET i == Find(url, {":"})
        has_scheme ==
            /\ i > 1
            /\ url[1] \in Range(LowerChars) \cup Range(UpperChars)
            /\ \A k \in 1..(i - 1) : url[k] \in scheme_chars
        scheme == IF has_scheme THEN lower(SubSeq(url, 1, i - 1)) ELSE <<>>
        url1 == IF has_scheme THEN SubSeq(url, i + 1, Len(url)) ELSE url
        has_netloc == Len(url1) >= 2 /\ url1[1] = "/" /\ url1[2] = "/"
        after == SubSeq(url1, 3, Len(url1))
        d == Find(after, {"/", "?", "#"})
        delim == IF d = 0 THEN Len(after) + 1 ELSE d
        netloc == IF has_netloc THEN SubSeq(after, 1, delim - 1) ELSE <<>>
        url2 == IF has_netloc THEN SubSeq(after, delim, Len(after)) ELSE url1
        q == Find(url2, {"?", "#"})
        path == IF q = 0 THEN url2 ELSE SubSeq(url2, 1, q - 1)
    IN  [scheme |-> scheme, netloc |-> netloc, path |-> path]

(***************************************************************************)
(* DataFrames.  A row of the model stands for row["n"] identical,          *)
(* consecutive rows of the table: cell-wise statements act on it once, and *)
(* counts weigh it by "n".  row["index"] is the pandas index label.        *)
(***************************************************************************)

STYLE == "Whisky Region or Style"

USER == "Reviewer's Reddit Username"

RATING == "Reviewer Rating"

LINK == "Link To Reddit Review"

\* dataframe[col], one cell per row of the model
column(df, col) == [i \in DOMAIN df |-> df[i][col]]

\* dataframe[col], one cell per row of the table
RECURSIVE expanded(_, _)
expanded(df, col) ==
    IF df = <<>> THEN <<>>
    ELSE [k \in 1..df[1]["n"] |-> df[1][col]] \o expanded(Tail(df), col)

\* dataframe[col] = ser
assign(df, col, ser) == [i \in DOMAIN df |-> (col :> ser[i]) @@ df[i]]

\* dataframe[mask]
mask_rows(df, mask) ==
    LET keep == SelectSeq([i \in DOMAIN df |-> i], LAMBDA i : mask[i])
    IN  [k \in DOMAIN keep |-> df[keep[k]]]

_url_parse_(df, url_col) ==
    LET df1 == assign(df, url_col, _strip_and_lower_series(column(df, url_col)))
        parsed == [i \in DOMAIN df1 |-> urlparse(df1[i][url_col])]
        df2 == assign(df1, "scheme", [i \in DOMAIN df1 |-> parsed[i].scheme])
        df3 == assign(df2, "netloc", [i \in DOMAIN df1 |-> parsed[i].netloc])
        df4 == assign(df3, "path", [i \in DOMAIN df1 |-> parsed[i].path])
        df5 == assign(df4, "scheme", replace(column(df4, "scheme"), <<>>, NaN))
        df6 == assign(df5, "netloc", replace(column(df5, "netloc"), <<>>, NaN))
    IN  assign(df6, "path", replace(column(df6, "path"), <<>>, NaN))

_url_fix_(df, url_col, rx) ==
    LET valid == mask_rows(df, [i \in DOMAIN df |-> ~isnull(df[i]["scheme"])])
        invalid == mask_rows(df, [i \in DOMAIN df |-> isnull(df[i]["scheme"])])
        inv1 == assign(invalid, url_col,
                       str_replace(column(invalid, url_col), Chars("www."), <<>>, rx))
        inv2 == assign(inv1, url_col,
                       str_prepend(Chars("https://www."), column(inv1, url_col)))
    IN  inv2 \o valid

(***************************************************************************)
(* Ratings                                                                 *)
(***************************************************************************)

DigitChars == Chars("0123456789")

DigitValue(c) == (CHOOSE k \in DOMAIN DigitChars : DigitChars[k] = c) - 1

RECURSIVE ParseNat(_)
ParseNat(s) ==
    IF s = <<>> THEN 0
    ELSE 10 * ParseNat(SubSeq(s, 1, Len(s) - 1)) + DigitValue(s[Len(s)])

\* The float a rating converts to: the model's ratings are unsigned whole numerals.
Float(n) == <<"float", n>>

\* Whether float(s) succeeds: float() ignores surrounding whitespace.  Of the
\* literals float() accepts, the model's ratings hold the unsigned whole numerals.
IsFloatLiteral(s) == strip(s) # <<>> /\ \A k \in DOMAIN strip(s) : strip(s)[k] \in Digits

\* Series.astype(float, errors='ignore'): the conversion of the whole series, or,
\* when any cell fails to convert, the series as it was.
astype_float_ignore(ser) ==
    IF \A i \in DOMAIN ser : isnull(ser[i]) \/ IsFloatLiteral(ser[i])
    THEN [i \in DOMAIN ser |->
            IF isnull(ser[i]) THEN NaN ELSE Float(ParseNat(strip(ser[i])))]
    ELSE ser

(***************************************************************************)
(* whisky_archive_processor.process, statement by statement                *)
(***************************************************************************)

\* The minimum number of reviews of a style that process keeps.
MinReviews == 100

replace_dict ==
    (Chars("bourbon/america") :> Chars("bourbon"))
    @@ (Chars("blended speyside scotch") :> Chars("speyside"))
    @@ (Chars("lowland / grain") :> Chars("lowland"))
    @@ (Chars("borubon") :> Chars("bourbon"))
    @@ (Chars("highlands") :> Chars("highland"))

\* Series.replace(dict): whole cells that are keys of the dict.
replace_by_dict(ser, dict) ==
    [i \in DOMAIN ser |-> IF ser[i] \in DOMAIN dict THEN dict[ser[i]] ELSE ser[i]]

\* self.whisky_archive = pd.read_excel(file_loc, dtype=str)
ReadExcel ==
    /\ pc = "read_excel"
    /\ whisky_archive' = xlsx
    /\ pc' = "normalize_style"
    /\ UNCHANGED <<regex, xlsx, keep_styles, scrapeVars, normVars, keepVars, textVars>>

\* The style column is stripped and lowercased.
NormalizeStyle ==
    /\ pc = "normalize_style"
    /\ whisky_archive' = assign(whisky_archive, STYLE,
                                _strip_and_lower_series(column(whisky_archive, STYLE)))
    /\ pc' = "replace_style"
    /\ UNCHANGED <<regex, xlsx, keep_styles, scrapeVars, normVars, keepVars, textVars>>

\* A process that leaves the alternate spellings as they are.
ReplaceStyleSkipped ==
    /\ pc = "replace_style"
    /\ pc' = "keep_frequent"
    /\ UNCHANGED <<regex, xlsx, whisky_archive, keep_styles, scrapeVars, normVars,
                   keepVars, textVars>>

\* Alternate spellings of the styles are replaced.
ReplaceStyle ==
    /\ pc = "replace_style"
    /\ whisky_archive' = assign(whisky_archive, STYLE,
                                replace_by_dict(column(whisky_archive, STYLE), replace_dict))
    /\ pc' = "keep_frequent"
    /\ UNCHANGED <<regex, xlsx, keep_styles, scrapeVars, normVars, keepVars, textVars>>

\* keep_styles = _keep_frequent_(series=..., count=100)
KeepStyles ==
    /\ pc = "keep_frequent"
    /\ keep_styles' = _keep_frequent_(expanded(whisky_archive, STYLE), MinReviews)
    /\ pc' = "filter_styles"
    /\ UNCHANGED <<regex, xlsx, whisky_archive, scrapeVars, normVars, keepVars, textVars>>

\* Only the rows with a style in keep_styles stay.
FilterStyles ==
    /\ pc = "filter_styles"
    /\ whisky_archive' = mask_rows(whisky_archive,
                                   isin(column(whisky_archive, STYLE), keep_styles))
    /\ pc' = "strip_username"
    /\ UNCHANGED <<regex, xlsx, keep_styles, scrapeVars, normVars, keepVars, textVars>>

\* The reviewer names are stripped.
StripUsername ==
    /\ pc = "strip_username"
    /\ whisky_archive' = assign(whisky_archive, USER, str_strip(column(whisky_archive, USER)))
    /\ pc' = "rating"
    /\ UNCHANGED <<regex, xlsx, keep_styles, scrapeVars, normVars, keepVars, textVars>>

\* The ratings are stripped and lowercased, lose '/100' and are converted to float.
ProcessRating ==
    /\ pc = "rating"
    /\ LET r1 == _strip_and_lower_series(column(whisky_archive, RATING))
           r2 == str_replace(r1, Chars("/100"), <<>>, regex)
       IN  whisky_archive' = assign(whisky_archive, RATING, astype_float_ignore(r2))
    /\ pc' = "url_parse"
    /\ UNCHANGED <<regex, xlsx, keep_styles, scrapeVars, normVars, keepVars, textVars>>

\* _url_parse_; urlparse raises AttributeError on a missing (float) link, which is
\* what a blank link has become, and process ends there.
UrlParse ==
    /\ pc = "url_parse"
    /\ LET links == _strip_and_lower_series(column(whisky_archive, LINK))
       IN  IF \E i \in DOMAIN links : isnull(links[i])
           THEN /\ whisky_archive' = assign(whisky_archive, LINK, links)
                /\ pc' = "raised"
           ELSE /\ whisky_archive' = _url_parse_(whisky_archive, LINK)
                /\ pc' = "url_fix"
    /\ UNCHANGED <<regex, xlsx, keep_styles, scrapeVars, normVars, keepVars, textVars>>

\* _url_fix_
UrlFix ==
    /\ pc = "url_fix"
    /\ whisky_archive' = _url_fix_(whisky_archive, LINK, regex)
    /\ pc' = "host_filter"
    /\ UNCHANGED <<regex, xlsx, keep_styles, scrapeVars, normVars, keepVars, textVars>>

\* Only the rows whose link contains 'reddit.com' stay; process returns.
HostFilter ==
    /\ pc = "host_filter"
    /\ whisky_archive' = mask_rows(whisky_archive,
                                   str_contains(column(whisky_archive, LINK),
                                                Chars("reddit.com")))
    /\ pc' = "done"
    /\ UNCHANGED <<regex, xlsx, keep_styles, scrapeVars, normVars, keepVars, textVars>>

NextProcess ==
    \/ ReadExcel
    \/ NormalizeStyle
    \/ ReplaceStyle
    \/ KeepStyles
    \/ FilterStyles
    \/ StripUsername
    \/ ProcessRating
    \/ UrlParse
    \/ UrlFix
    \/ HostFilter

(***************************************************************************)
(* The spreadsheets process is run on                                      *)
(***************************************************************************)

\* The most rows of the model in a spreadsheet.
MaxRows == 2

\* How many rows of the table a row of the model stands for.
Multiplicities == {1, MinReviews - 1}

Row(index, style, user, rating, link, n) ==
    (STYLE :> style) @@ (USER :> user) @@ (RATING :> rating) @@ (LINK :> link)
    @@ ("n" :> n) @@ ("index" :> index)

\* The spreadsheets of at most MaxRows rows with cells <<style, rating, link, n>>
\* drawn from Cells.
Sheets(Cells) ==
    UNION {{[i \in 1..k |-> Row(i, c[i][1], Chars(" u1 "), c[i][2], c[i][3], c[i][4])] :
                c \in [1..k -> Cells]} : k \in 0..MaxRows}

GoodLink == Chars("https://www.reddit.com/r/x/1")

StyleCells ==
    {Chars(" Bourbon"), Chars("borubon"), Chars("islay"), Chars(" "), NaN}
    \X {Chars("90")}
    \X {GoodLink, Chars("example.com")}
    \X Multiplicities

CanonCells ==
    {Chars("Bourbon/America "), Chars("blended speyside scotch"), Chars("lowland / grain"),
     Chars("borubon"), Chars("HIGHLANDS"), Chars("bourbon"), Chars("speyside"),
     Chars("lowland"), Chars("highland"), Chars("islay")}
    \X {Chars("90")}
    \X {GoodLink}
    \X Multiplicities

RatingCells ==
    {Chars("islay")}
    \X {Chars("92/100"), Chars(" 87 "), Chars("n/a"), Chars("N/A/100"), NaN}
    \X {GoodLink}
    \X Multiplicities

LinkCells ==
    {Chars("islay")}
    \X {Chars("90")}
    \X {Chars("reddit.com/r/x/1"), GoodLink, Chars(" WWW.Reddit.com/r/x"),
        Chars("reddit.com/r/www.x"), Chars("example.com"),
        Chars("http://example.com/reddit.com"), Chars("http://notreddit.com.evil.org/x"),
        Chars("http://redditxcom.org/"), Chars("old.reddit.com/r/x"), NaN}
    \X Multiplicities

InitProcess ==
    /\ regex \in BOOLEAN
    /\ xlsx \in Sheets(StyleCells) \cup Sheets(CanonCells) \cup Sheets(RatingCells)
                \cup Sheets(LinkCells)
    /\ whisky_archive = None
    /\ keep_styles = {}
    /\ pc = "read_excel"
    /\ IdleScrape /\ IdleNorm /\ IdleKeep /\ IdleText

SpecProcess == InitProcess /\ [][NextProcess]_vars

\* The spreadsheets that vary the style labels only.
InitCanon ==
    /\ regex \in BOOLEAN
    /\ xlsx \in Sheets(CanonCells)
    /\ whisky_archive = None
    /\ keep_styles = {}
    /\ pc = "read_excel"
    /\ IdleScrape /\ IdleNorm /\ IdleKeep /\ IdleText

SpecCanon == InitCanon /\ [][NextProcess]_vars

(***************************************************************************)
(* Properties of process                                                   *)
(***************************************************************************)

Done == pc = "done"

\* The number of rows of the table that the rows I of df stand for.
RECURSIVE Weight(_, _)
Weight(df, I) ==
    IF I = {} THEN 0
    ELSE LET i == CHOOSE i \in I : TRUE IN df[i]["n"] + Weight(df, I \ {i})

\* The style label of row i of the spreadsheet, stripped and lowercased.
NormalStyle(i) == _strip_and_lower_series(<<xlsx[i][STYLE]>>)[1]

\* Its canonical spelling by the mapping table.
CanonStyle(i) ==
    IF NormalStyle(i) \in DOMAIN replace_dict THEN replace_dict[NormalStyle(i)]
    ELSE NormalStyle(i)

\* The rows of the spreadsheet with the canonical label l.
RowsOfStyle(l) == {i \in DOMAIN xlsx : CanonStyle(i) = l}

\* C1: after process, every surviving record has a non-missing style label that
\* occurs at least 100 times among the surviving records.
C1_FrequentAmongSurvivors ==
    Done =>
        \A i \in DOMAIN whisky_archive :
            /\ ~isnull(whisky_archive[i][STYLE])
            /\ Weight(whisky_archive,
                      {j \in DOMAIN whisky_archive :
                          whisky_archive[j][STYLE] = whisky_archive[i][STYLE]})
                    >= MinReviews

\* What does hold of the survivors: a non-missing label that occurred at least
\* 100 times in the spreadsheet, before the links were filtered.
C1_FrequentBeforeLinkFilter ==
    Done =>
        \A i \in DOMAIN whisky_archive :
            /\ ~isnull(whisky_archive[i][STYLE])
            /\ Weight(xlsx, RowsOfStyle(whisky_archive[i][STYLE])) >= MinReviews

\* The host of a link is the discussion site: reddit.com or a subdomain of it.
RedditHost(link) ==
    LET host == urlparse(link).netloc
        site == Chars("reddit.com")
        n == Len(host) - Len(site)
    IN  /\ n >= 0
        /\ SubSeq(host, n + 1, Len(host)) = site
        /\ n > 0 => host[n] = "."

\* C2: after process, every surviving record's link has the discussion site as
\* its host.
C2_HostIsReddit ==
    Done => \A i \in DOMAIN whisky_archive : RedditHost(whisky_archive[i][LINK])

\* A rating is well formed: a whole numeral, with "/100" after it or not.
WellFormed(r) ==
    LET m == Len(r) - 4
        num == IF m >= 1 /\ SubSeq(r, m + 1, Len(r)) = Chars("/100")
               THEN SubSeq(r, 1, m) ELSE r
    IN  num # <<>> /\ \A k \in DOMAIN num : num[k] \in Digits

Numerator(r) ==
    LET m == Len(r) - 4
    IN  IF m >= 1 /\ SubSeq(r, m + 1, Len(r)) = Chars("/100")
        THEN ParseNat(SubSeq(r, 1, m)) ELSE ParseNat(r)

RatingsParsed == pc \in {"url_parse", "url_fix", "host_filter", "done", "raised"}

\* C3: once the ratings are processed, every record with a well-formed rating
\* holds its numerator as a float, and every other record holds the missing
\* value, whatever the other records' ratings are.
C3_RatingPerRecord ==
    RatingsParsed =>
        \A i \in DOMAIN whisky_archive :
            LET raw == xlsx[whisky_archive[i]["index"]][RATING]
                r == IF isnull(raw) THEN NaN ELSE lower(strip(raw))
            IN  whisky_archive[i][RATING] =
                    IF ~isnull(r) /\ WellFormed(r) THEN Float(Numerator(r)) ELSE NaN

\* The link of row i of the spreadsheet, stripped and lowercased.
NormalLink(i) == lower(strip(xlsx[i][LINK]))

\* The repair the claim describes: a leading "www." off, "https://www." on.
Repaired(link) ==
    Chars("https://www.")
        \o (IF Len(link) >= 4 /\ SubSeq(link, 1, 4) = Chars("www.")
            THEN SubSeq(link, 5, Len(link)) ELSE link)

\* C7: after _url_parse_ and _url_fix_, every record that had a scheme holds its
\* normalized link, every record that had none holds the repaired link, and
\* every record that went in comes out exactly once.
C7_UrlRepair ==
    pc = "host_filter" =>
        /\ \A i \in DOMAIN whisky_archive :
            LET k == whisky_archive[i]["index"]
            IN  whisky_archive[i][LINK] =
                    IF urlparse(NormalLink(k)).scheme # <<>> THEN NormalLink(k)
                    ELSE Repaired(NormalLink(k))
        /\ \A k \in DOMAIN xlsx :
            CanonStyle(k) \in keep_styles =>
                Cardinality({i \in DOMAIN whisky_archive :
                                whisky_archive[i]["index"] = k}) = 1

\* C8: the style labels are canonicalized after normalization and before the
\* count: once replaced, each record holds the mapping table's value for its
\* normalized label when that is a key and the normalized label otherwise; the
\* styles kept are the canonical labels whose records, variant spellings
\* included, number at least 100; and the filter keeps exactly their records.
C8_Canonicalized ==
    LET canon == [i \in DOMAIN xlsx |-> CanonStyle(i)]
        count == [i \in DOMAIN xlsx |->
                    Weight(xlsx, {j \in DOMAIN xlsx : canon[j] = canon[i]})]
        frequent == {i \in DOMAIN xlsx : ~isnull(canon[i]) /\ count[i] >= MinReviews}
    IN  /\ pc \in {"keep_frequent", "filter_styles"} =>
            /\ DOMAIN whisky_archive = DOMAIN xlsx
            /\ \A i \in DOMAIN xlsx : whisky_archive[i][STYLE] = canon[i]
        /\ pc \in {"filter_styles", "strip_username"} =>
            keep_styles = {canon[i] : i \in frequent}
        /\ pc = "strip_username" =>
            /\ {whisky_archive[i]["index"] : i \in DOMAIN whisky_archive} = frequent
            /\ \A i \in DOMAIN whisky_archive :
                    whisky_archive[i][STYLE] = canon[whisky_archive[i]["index"]]

\* 99 records spelt "borubon" and one spelt "bourbon" are all kept, as "bourbon".
C8_Witness ==
    /\ pc = "strip_username"
    /\ Len(xlsx) = 2
    /\ xlsx[1][STYLE] = Chars("borubon") /\ xlsx[1]["n"] = MinReviews - 1
    /\ xlsx[2][STYLE] = Chars("bourbon") /\ xlsx[2]["n"] = 1
    /\ Len(whisky_archive) = 2
    /\ \A i \in 1..2 : whisky_archive[i][STYLE] = Chars("bourbon")

(***************************************************************************)
(* _scrape_reddit_reviews_: one iteration of its loop per row              *)
(***************************************************************************)

\* The most rows of the dataframe that is scraped.
ScrapeMaxRows == 2

\* The most top-level nodes of a thread.
MaxThread == 3

Users == {Chars("u1"), Chars("u2")}

Bodies == {Chars("a"), Chars("b"), Chars("ab")}

\* A MoreComments node: the "load more comments" link of a thread.
MoreComments == [more |-> TRUE, author |-> None, body |-> None]

Comment(author, body) == [more |-> FALSE, author |-> author, body |-> body]

Nodes == {MoreComments} \cup {Comment(a, b) : a \in Users, b \in Bodies}

\* A selection that takes the last of the longest comments.
select_last_longest(comments) ==
    LET n_comments == Len(comments)
        comment_lengths == [k \in 1..n_comments |-> Len(comments[k])]
    IN  IF n_comments = 0 THEN NaN
        ELSE comments[
                CHOOSE k \in 1..n_comments :
                    /\ \A j \in 1..n_comments : comment_lengths[j] <= comment_lengths[k]
                    /\ \A j \in (k + 1)..n_comments : comment_lengths[j] < comment_lengths[k]]

\* What is appended to reviews: nothing found gives np.nan, one comment gives it,
\* several give the first of the longest (list.index of the maximum).
select_review(comments) ==
    LET n_comments == Len(comments)
        comment_lengths == [k \in 1..n_comments |-> Len(comments[k])]
        max_length_loc ==
            CHOOSE k \in 1..n_comments :
                /\ \A j \in 1..n_comments : comment_lengths[j] <= comment_lengths[k]
                /\ \A j \in 1..(k - 1) : comment_lengths[j] < comment_lengths[k]
    IN  IF n_comments = 0 THEN NaN
        ELSE IF n_comments = 1 THEN comments[1]
        ELSE comments[max_length_loc]

InitScrape ==
    /\ regex = TRUE
    /\ dataframe \in {[i \in DOMAIN u |->
                            (LINK :> GoodLink) @@ (USER :> u[i]) @@ ("index" :> i)] :
                        u \in SeqUpTo(Users, ScrapeMaxRows) \ {<<>>}}
    /\ reviews = <<>>
    /\ submission = <<>>
    /\ review_top_level_comments = <<>>
    /\ scrape_pc = "row"
    /\ IdleProcess /\ IdleNorm /\ IdleKeep /\ IdleText

\* The row of this iteration.
row == dataframe[Len(reviews) + 1]

\* The loop takes the next row: its list of comments is empty, and the try block
\* is entered.
NextRow ==
    /\ scrape_pc = "row"
    /\ Len(reviews) < Len(dataframe)
    /\ review_top_level_comments' = <<>>
    /\ submission' = [comments |-> <<>>, raised |-> FALSE]
    /\ scrape_pc' = "try"
    /\ UNCHANGED <<regex, dataframe, reviews, processVars, normVars, keepVars, textVars>>

\* The thread yields one more top-level node: a MoreComments is passed over, and
\* a comment by the row's reviewer has its body appended.
ReadComment ==
    /\ scrape_pc = "try"
    /\ Len(submission.comments) < MaxThread
    /\ \E top_level_comment \in Nodes :
        /\ submission' = [submission EXCEPT !.comments = Append(@, top_level_comment)]
        /\ review_top_level_comments' =
                IF top_level_comment.more THEN review_top_level_comments
                ELSE IF top_level_comment.author = row[USER]
                     THEN Append(review_top_level_comments, top_level_comment.body)
                     ELSE review_top_level_comments
    /\ UNCHANGED <<regex, dataframe, reviews, scrape_pc, processVars, normVars, keepVars,
                   textVars>>

\* Fetching the thread, or reading its next node, raises: the bare except passes,
\* with review_top_level_comments as it is.
Raise ==
    /\ scrape_pc = "try"
    /\ submission' = [submission EXCEPT !.raised = TRUE]
    /\ scrape_pc' = "select"
    /\ UNCHANGED <<regex, dataframe, reviews, review_top_level_comments, processVars,
                   normVars, keepVars, textVars>>

\* The thread has no more top-level nodes: the try block ends.
EndOfComments ==
    /\ scrape_pc = "try"
    /\ scrape_pc' = "select"
    /\ UNCHANGED <<regex, dataframe, reviews, submission, review_top_level_comments,
                   processVars, normVars, keepVars, textVars>>

\* The entry of the row is appended to reviews.
SelectReview ==
    /\ scrape_pc = "select"
    /\ reviews' = Append(reviews, select_review(review_top_level_comments))
    /\ scrape_pc' = "row"
    /\ UNCHANGED <<regex, dataframe, submission, review_top_level_comments, processVars,
                   normVars, keepVars, textVars>>

\* dataframe['review_text'] = reviews, after the loop; the dataframe is returned.
StoreReviews ==
    /\ scrape_pc = "row"
    /\ Len(reviews) = Len(dataframe)
    /\ dataframe' = assign(dataframe, "review_text", reviews)
    /\ scrape_pc' = "done"
    /\ UNCHANGED <<regex, reviews, submission, review_top_level_comments, processVars,
                   normVars, keepVars, textVars>>

NextScrape ==
    \/ NextRow
    \/ ReadComment
    \/ Raise
    \/ EndOfComments
    \/ SelectReview
    \/ StoreReviews

SpecScrape == InitScrape /\ [][NextScrape]_vars

\* An iteration is over: its entry is the last of reviews, and submission holds
\* what the iteration read.
Selected == scrape_pc \in {"row", "done"} /\ reviews # <<>>

\* The row the last iteration was for, and what it appended.
LastRow == dataframe[Len(reviews)]

LastReview == reviews[Len(reviews)]

\* C4: when an error is raised for a record, before the first reply or after some
\* matching replies were collected, the record's review text is the missing
\* value; the entries of the records before it stay as they were, and in the
\* end every record has its entry.
C4_ErrorGivesMissing ==
    /\ (Selected /\ submission.raised) => LastReview = NaN
    /\ Len(reviews) <= Len(dataframe)
    /\ scrape_pc = "done" =>
            \A i \in DOMAIN dataframe : dataframe[i]["review_text"] = reviews[i]

\* What does hold when an error is raised before any reply of the reviewer's was
\* collected.
C4_ErrorBeforeAnyCandidate ==
    (Selected /\ submission.raised /\ review_top_level_comments = <<>>)
        => LastReview = NaN

\* The positions in the thread of the candidates of the last row: the top-level
\* comments that are no placeholder and are by the row's reviewer.
Candidates ==
    {k \in DOMAIN submission.comments :
        /\ ~submission.comments[k].more
        /\ submission.comments[k].author = LastRow[USER]}

CandidateLength(k) == Len(submission.comments[k].body)

\* C5: for every record whose thread was read without an error, the selected
\* text is missing when there is no candidate, and otherwise is a candidate of
\* the greatest length that no earlier candidate equals in length (the only
\* candidate, when there is one).
C5_SelectionRule ==
    (Selected /\ ~submission.raised) =>
        IF Candidates = {} THEN LastReview = NaN
        ELSE \E k \in Candidates :
                /\ LastReview = submission.comments[k].body
                /\ \A j \in Candidates : CandidateLength(j) <= CandidateLength(k)
                /\ \A j \in Candidates : j < k => CandidateLength(j) < CandidateLength(k)

\* After a placeholder and another reviewer's longer comment, two candidates of
\* the same length: the first of the two is selected.
C5_Witness ==
    /\ Selected
    /\ Len(reviews) = 2
    /\ LastRow[USER] = Chars("u1")
    /\ ~submission.raised
    /\ submission.comments = <<Comment(Chars("u2"), Chars("ab")),
                               Comment(Chars("u1"), Chars("b")),
                               Comment(Chars("u1"), Chars("a"))>>
    /\ LastReview = Chars("b")

(***************************************************************************)
(* preprocess_reviews, statement by statement                              *)
(***************************************************************************)

\* The most documents of a series.
TextMaxDocs == 2

\* \w of a regular expression
IsWordChar(c) ==
    c \in Range(LowerChars) \cup Range(UpperChars) \cup Digits \cup {"_"}

\* The longest prefix of s made of word characters.
RECURSIVE WordRun(_)
WordRun(s) ==
    IF s # <<>> /\ IsWordChar(Head(s)) THEN <<Head(s)>> \o WordRun(Tail(s)) ELSE <<>>

\* re.sub('\w*\d\w*', '', s): every run of word characters that holds a digit goes.
RECURSIVE RemoveDigitWords(_)
RemoveDigitWords(s) ==
    IF s = <<>> THEN <<>>
    ELSE IF IsWordChar(Head(s))
         THEN LET run == WordRun(s)
                  rest == RemoveDigitWords(SubSeq(s, Len(run) + 1, Len(s)))
              IN  IF \E k \in DOMAIN run : run[k] \in Digits THEN rest ELSE run \o rest
         ELSE <<Head(s)>> \o RemoveDigitWords(Tail(s))

\* re.sub('[^\w\s]', '', s)
RemovePunctuation(s) == SelectSeq(s, LAMBDA c : IsWordChar(c) \/ IsSpace(c))

\* text_series.str.replace('[^\w\s]', ''): a regular expression under rx, and
\* otherwise the literal text of the pattern.
str_replace_punctuation(ser, rx) ==
    [i \in DOMAIN ser |->
        IF isnull(ser[i]) THEN NaN
        ELSE IF rx THEN RemovePunctuation(ser[i])
        ELSE ReplaceAll(ser[i], Chars("[^\\w\\s]"), <<>>, FALSE)]

\* text_series.str.replace("\w*\d\w*", '')
str_replace_digit_words(ser, rx) ==
    [i \in DOMAIN ser |->
        IF isnull(ser[i]) THEN NaN
        ELSE IF rx THEN RemoveDigitWords(ser[i])
        ELSE ReplaceAll(ser[i], Chars("\\w*\\d\\w*"), <<>>, FALSE)]

\* str.split(): the maximal runs of non-whitespace characters.
RECURSIVE split(_)
split(s) ==
    LET t == lstrip(s)
        k == Find(t, {" ", "\t", "\n"})
    IN  IF t = <<>> THEN <<>>
        ELSE IF k = 0 THEN <<t>>
        ELSE <<SubSeq(t, 1, k - 1)>> \o split(SubSeq(t, k, Len(t)))

\* nltk.word_tokenize on the model's documents: "!" is a token of its own, and
\* the words are the runs between whitespace.
word_tokenize(s) == split(ReplaceAll(s, Chars("!"), Chars(" ! "), FALSE))

\* stopwords.words('english'), as far as the model's documents go
sw_filter == {Chars("this"), Chars("is"), Chars("it"), Chars("the"), Chars("a")}

\* nltk.pos_tag_sents on the model's vocabulary: each sentence is tagged by itself.
pos_tag(word) ==
    IF word = Chars("cats") THEN Chars("NNS")
    ELSE IF word = Chars("ran") THEN Chars("VBD")
    ELSE IF word = Chars("smoky") THEN Chars("JJ")
    ELSE IF word = Chars("!") THEN Chars(".")
    ELSE Chars("NN")

pos_tag_sents(sents) ==
    [i \in DOMAIN sents |-> [k \in DOMAIN sents[i] |-> <<sents[i][k], pos_tag(sents[i][k])>>]]

get_wordnet_pos(treebank_tag) ==
    IF Head(treebank_tag) = "J" THEN "a"
    ELSE IF Head(treebank_tag) = "V" THEN "v"
    ELSE IF Head(treebank_tag) = "N" THEN "n"
    ELSE IF Head(treebank_tag) = "R" THEN "r"
    ELSE "n"

\* WordNetLemmatizer.lemmatize on the model's vocabulary.
lemmatize(word, pos) ==
    IF pos = "n" /\ word = Chars("cats") THEN Chars("cat")
    ELSE IF pos = "v" /\ word = Chars("ran") THEN Chars("run")
    ELSE word

\* ' '.join(x)
RECURSIVE join(_)
join(x) ==
    IF x = <<>> THEN <<>>
    ELSE IF Len(x) = 1 THEN x[1]
    ELSE x[1] \o <<" ">> \o join(Tail(x))

TextDocs ==
    {<<>>, Chars(" The  "), Chars("This is it!"), Chars("Cats 1a ran!"),
     Chars("Smoky peat"), Chars("a1 2b"), Chars("!!"), NaN}

InitText ==
    /\ regex \in BOOLEAN
    /\ text_arg \in SeqUpTo(TextDocs, TextMaxDocs)
    /\ text_series = text_arg
    /\ processed_series = <<>>
    /\ text_pc = "clean"
    /\ IdleProcess /\ IdleScrape /\ IdleNorm /\ IdleKeep

\* Stripped, lowercased, without punctuation and without the words with digits.
Clean ==
    /\ text_pc = "clean"
    /\ text_series' = str_replace_digit_words(
                          str_replace_punctuation(str_lower(str_strip(text_series)), regex),
                          regex)
    /\ text_pc' = "tokenize"
    /\ UNCHANGED <<regex, text_arg, processed_series, processVars, scrapeVars, normVars,
                   keepVars>>

\* text_series.apply(nltk.word_tokenize), which raises TypeError on a missing
\* document: preprocess_reviews ends there.
Tokenize ==
    /\ text_pc = "tokenize"
    /\ IF \E i \in DOMAIN text_series : isnull(text_series[i])
       THEN text_pc' = "raised" /\ UNCHANGED text_series
       ELSE /\ text_series' = [i \in DOMAIN text_series |-> word_tokenize(text_series[i])]
            /\ text_pc' = "stopwords"
    /\ UNCHANGED <<regex, text_arg, processed_series, processVars, scrapeVars, normVars,
                   keepVars>>

\* A removal that also drops the documents left without a word.
RemoveStopWordsAndEmpty ==
    /\ text_pc = "stopwords"
    /\ text_series' = SelectSeq([i \in DOMAIN text_series |->
                                    SelectSeq(text_series[i], LAMBDA w : w \notin sw_filter)],
                                LAMBDA x : x # <<>>)
    /\ text_pc' = "pos_tag"
    /\ UNCHANGED <<regex, text_arg, processed_series, processVars, scrapeVars, normVars,
                   keepVars>>

\* The stop words are removed from every document.
RemoveStopWords ==
    /\ text_pc = "stopwords"
    /\ text_series' = [i \in DOMAIN text_series |->
                          SelectSeq(text_series[i], LAMBDA w : w \notin sw_filter)]
    /\ text_pc' = "pos_tag"
    /\ UNCHANGED <<regex, text_arg, processed_series, processVars, scrapeVars, normVars,
                   keepVars>>

\* The parts of speech are tagged and mapped to WordNet's.
PosTag ==
    /\ text_pc = "pos_tag"
    /\ LET tagged == pos_tag_sents(text_series)
       IN  processed_series' =
                [i \in DOMAIN tagged |->
                    [k \in DOMAIN tagged[i] |->
                        <<tagged[i][k][1], get_wordnet_pos(tagged[i][k][2])>>]]
    /\ text_pc' = "lemmatize"
    /\ UNCHANGED <<regex, text_arg, text_series, processVars, scrapeVars, normVars,
                   keepVars>>

\* Every word is lemmatized by its part of speech.
Lemmatize ==
    /\ text_pc = "lemmatize"
    /\ processed_series' =
            [i \in DOMAIN processed_series |->
                [k \in DOMAIN processed_series[i] |->
                    lemmatize(processed_series[i][k][1], processed_series[i][k][2])]]
    /\ text_pc' = "join"
    /\ UNCHANGED <<regex, text_arg, text_series, processVars, scrapeVars, normVars,
                   keepVars>>

\* return processed_series.apply(lambda x: ' '.join(x))
Join ==
    /\ text_pc = "join"
    /\ processed_series' = [i \in DOMAIN processed_series |-> join(processed_series[i])]
    /\ text_pc' = "done"
    /\ UNCHANGED <<regex, text_arg, text_series, processVars, scrapeVars, normVars,
                   keepVars>>

NextText == Clean \/ Tokenize \/ RemoveStopWords \/ PosTag \/ Lemmatize \/ Join

SpecText == InitText /\ [][NextText]_vars

\* What preprocess_reviews returns for the one document doc.
Alone(doc) ==
    LET cleaned == str_replace_digit_words(
                       str_replace_punctuation(str_lower(str_strip(<<doc>>)), regex), regex)
        words == SelectSeq(word_tokenize(cleaned[1]), LAMBDA w : w \notin sw_filter)
        tagged == pos_tag_sents(<<words>>)[1]
    IN  join([k \in DOMAIN tagged |->
                lemmatize(tagged[k][1], get_wordnet_pos(tagged[k][2]))])

\* The words of document i that the stop-word filter left.
WordsLeft(i) == text_series[i]

\* C10: the series preprocess_reviews returns has one string per document of its
\* argument, in the argument's order: the i-th is what the i-th document gives
\* when it is processed alone, and is the empty string, not a missing value,
\* when no word of the document is left.
C10_OnePerDocument ==
    text_pc = "done" =>
        /\ Len(processed_series) = Len(text_arg)
        /\ \A i \in DOMAIN text_arg :
            /\ processed_series[i] # NaN
            /\ processed_series[i] = Alone(text_arg[i])
            /\ WordsLeft(i) = <<>> => processed_series[i] = <<>>

\* A document that loses all its words comes before one that keeps two: the
\* first gives the empty string and the second its lemmas.
C10_Witness ==
    /\ text_pc = "done"
    /\ regex
    /\ text_arg = <<Chars("This is it!"), Chars("Cats 1a ran!")>>
    /\ processed_series = <<<<>>, Chars("cat run")>>

====
